---- MODULE Spec2Model ----
(***************************************************************************)
(* A model of the word-bearer bot: the ladder scoring rule                 *)
(* (src/src/ladder/ladder.py), the league manager's result log and weekly  *)
(* standings post (src/src/ladder/manager.py), the scheduled message jobs  *)
(* (src/src/components/messagejob.py) and the 30 second worker loop        *)
(* (src/src/client.py).                                                    *)
(*                                                                         *)
(* Time is counted in hours since Monday 2024-01-01 00:00 UTC, the first   *)
(* day of ISO week 1 of 2024; 2024 and 2025 are 52-week ISO years.         *)
(***************************************************************************)
EXTENDS Integers, Sequences, FiniteSets, TLC

VARIABLES
    results,       \* compute_standings: the results replayed so far, in order
    player_map,    \* compute_standings: name -> LadderPlayer ledger (a dict)
    now,           \* the UTC clock, in hours
    pc,            \* job_runner: "waiting" (before ready), "idle" (between
                   \* ticks), "tick" (inside a tick), "stopped" (loop ended)
    due,           \* run_jobs: the due jobs not yet run in this tick
    todo,          \* job_runner: the leagues not yet visited in this tick
    jobs,          \* MessageJobHandler.jobs: id -> MessageJob
    job_dir,       \* the pending store: file stem -> job file content
    finished_dir,  \* the finished store: file stem -> job file content
    leagues,       \* WordBearerClient.leagues, in insertion order
    config_file,   \* per league: the posted-week record file
    results_path,  \* per league: the result log file
    dispatched,    \* history: the jobs handed to channel.send, with the time
    posts,         \* history: the standings messages sent, with the time
    poll,          \* history: the last tick (start time, plan, attempts)
    restarts,      \* number of process restarts so far
    stored,        \* history: per league, the results given to store_result
    orphaned,      \* history: number of orphaned-result warnings logged
    probe          \* period_of_date called on its own: the league's start,
                   \* a timestamp, and the indices returned so far

ladderVars == <<results, player_map>>
botVars == <<now, pc, due, todo, jobs, job_dir, finished_dir, leagues,
             config_file, results_path, dispatched, posts, poll, restarts,
                   stored, orphaned>>
vars == <<results, player_map, now, pc, due, todo, jobs, job_dir,
          finished_dir, leagues, config_file, results_path, dispatched,
          posts, poll, restarts,
                   stored, orphaned, probe>>

----------------------------------------------------------------------------
(* Bounds of the ladder model *)

MaxResults == 2
HoursPerDay == 24
Names == {"A", "B", "a"}
\* match days, counted from the league's start_date
MatchDays == {0, 1, 7}
\* the three outcomes the report form produces: <<player_won, was_draw>>
Outcomes == {<<TRUE, FALSE>>, <<FALSE, TRUE>>, <<FALSE, FALSE>>}
\* <<player_vp, opponent_vp>>
VictoryPoints == {<<3, 1>>}

----------------------------------------------------------------------------
(* ladder.py *)

INITIAL_POINTS == 10
WEEKLY == 7

\* LadderConfig of the modelled league: start_date is hour 0
StartDate == 0
config == [start_date |-> StartDate, period |-> WEEKLY, games_per_period |-> 1]

\* a DiscordLadderResult
LadderResults ==
    { [player |-> p, opponent |-> o, time |-> StartDate + d * HoursPerDay,
       player_victory |-> oc[1], draw |-> oc[2],
       vp_player |-> vp[1], vp_opponent |-> vp[2]] :
         p \in Names, o \in Names, d \in MatchDays, oc \in Outcomes,
         vp \in VictoryPoints }

\* a variant of the ledger constructor that ignores the initial points
LadderPlayerZero(name, initial_points) ==
    [name |-> name, games_played |-> 0, games_won |-> 0, games_drawn |-> 0,
     opponents_played |-> << >>, total_vp |-> 0,
     ladder_points |-> 0, match_periods |-> << >>]

\* LadderPlayer.__init__
LadderPlayer(name, initial_points) ==
    [name |-> name, games_played |-> 0, games_won |-> 0, games_drawn |-> 0,
     opponents_played |-> << >>, total_vp |-> 0,
     ladder_points |-> initial_points, match_periods |-> << >>]

\* timedelta.days: whole days, rounded toward minus infinity
Days(hours) == hours \div HoursPerDay

\* a variant whose remainder takes the sign of the difference
period_of_date_signed(d, c) ==
    IF d >= c.start_date THEN Days(d - c.start_date) % 7
    ELSE 0 - (Days(c.start_date - d) % 7)

period_of_date(d, c) == Days(d - c.start_date) % 7

Range(s) == { s[i] : i \in DOMAIN s }

\* dict assignment d[k] = v
DictSet(d, k, v) == [x \in (DOMAIN d) \cup {k} |-> IF x = k THEN v ELSE d[x]]

\* a variant of the rounding that rounds the half gap down
FloorHalf(gap) == gap \div 2

\* math.ceil(gap / 2) for an integer gap
CeilHalf(gap) == (gap + 1) \div 2

\* a variant of the period gate that never finds a recorded game
PlayedNever(p, period) == FALSE

\* lines 128-129: has the player a recorded game in the period?
Played(p, period) ==
    period \in DOMAIN p.match_periods /\ p.match_periods[period] > 0

\* a variant of the new-matchup test that always finds a new matchup
NewMatchupAlways(p, opponent_name) == TRUE

\* line 162: result.opponent_name() not in a.opponents_played
NewMatchup(p, opponent_name) == opponent_name \notin Range(p.opponents_played)

\* a variant of the outcome deltas in which the loser of a decided game pays
\* a point
AddtlLoserPays(pm, r) ==
    IF r.player_victory THEN <<2, -1>>
    ELSE IF r.draw THEN <<1, 1>>
    ELSE <<-1, 2>>

\* lines 137-160: the pending ladder-point deltas <<a_addtl_lp, b_addtl_lp>>,
\* read from the ledgers as they are when the outcome is resolved
Addtl(pm, r) ==
    LET a == pm[r.player]
        b == pm[r.opponent]
    IN  IF r.player_victory
        THEN <<(IF b.ladder_points > a.ladder_points
                THEN CeilHalf(b.ladder_points - a.ladder_points) ELSE 0) + 2, 1>>
        ELSE IF r.draw
        THEN <<1, 1>>
        ELSE <<1, (IF a.ladder_points > b.ladder_points
                   THEN CeilHalf(a.ladder_points - b.ladder_points) ELSE 0) + 2>>

\* lines 133-160: the unconditional counters. a and b are the entries of the
\* player map named by the result; when both names are equal they are one
\* object, and each assignment acts on the map as it is after the previous one.
Counters(pm, r) ==
    LET an == r.player
        bn == r.opponent
        p1 == [pm EXCEPT ![an].games_played = @ + 1]
        p2 == [p1 EXCEPT ![bn].games_played = @ + 1]
        p3 == [p2 EXCEPT ![an].total_vp = @ + r.vp_player]
        p4 == [p3 EXCEPT ![bn].total_vp = @ + r.vp_opponent]
    IN  IF r.player_victory
        THEN [p4 EXCEPT ![an].games_won = @ + 1]
        ELSE IF r.draw
        THEN LET q == [p4 EXCEPT ![an].games_drawn = @ + 1]
             IN  [q EXCEPT ![bn].games_drawn = @ + 1]
        ELSE [p4 EXCEPT ![bn].games_won = @ + 1]

\* lines 161-166: the new-matchup bonus
Matchup(pm, r) ==
    LET an == r.player
        bn == r.opponent
    IN  IF NewMatchup(pm[an], bn)
        THEN LET p1 == [pm EXCEPT ![an].opponents_played = Append(@, bn)]
                 p2 == [p1 EXCEPT ![bn].opponents_played = Append(@, an)]
                 p3 == [p2 EXCEPT ![an].ladder_points = @ + 1]
             IN  [p3 EXCEPT ![bn].ladder_points = @ + 1]
        ELSE pm

\* lines 167-174: the period gate and the period counters
Gate(pm, r, period, a_played, b_played, addtl) ==
    LET an == r.player
        bn == r.opponent
        p1 == IF ~a_played
              THEN [pm EXCEPT ![an].ladder_points = @ + addtl[1],
                              ![an].match_periods = DictSet(@, period, 0)]
              ELSE pm
        p2 == IF ~b_played
              THEN [p1 EXCEPT ![bn].ladder_points = @ + addtl[2],
                              ![bn].match_periods = DictSet(@, period, 0)]
              ELSE p1
        p3 == [p2 EXCEPT ![an].match_periods[period] = @ + 1]
    IN  [p3 EXCEPT ![bn].match_periods[period] = @ + 1]

\* update_players_basic(a, b, result, config), a and b being pm[result.player]
\* and pm[result.opponent]; the value is the player map after the update
update_players_basic(pm, r, c) ==
    LET result_period == period_of_date(r.time, c)
        a_played == Played(pm[r.player], result_period)
        b_played == Played(pm[r.opponent], result_period)
        p1 == Counters(pm, r)
        addtl == Addtl(p1, r)
        p2 == Matchup(p1, r)
    IN  Gate(p2, r, result_period, a_played, b_played, addtl)

\* lines 194-201: the ledgers are created on first appearance
EnsurePlayers(pm, r) ==
    [n \in (DOMAIN pm) \cup {r.player, r.opponent} |->
        IF n \in DOMAIN pm THEN pm[n] ELSE LadderPlayer(n, INITIAL_POINTS)]

\* lines 193-207: one iteration of compute_standings' loop
StandingsStep(pm, r, c) == update_players_basic(EnsurePlayers(pm, r), r, c)

\* compute_standings(results, config, update_players_basic): the loop from
\* an empty player map; the returned list holds the values of the map
RECURSIVE compute_standings(_, _)
compute_standings(rs, c) ==
    IF rs = << >> THEN << >>
    ELSE StandingsStep(compute_standings(SubSeq(rs, 1, Len(rs) - 1), c),
                       rs[Len(rs)], c)

----------------------------------------------------------------------------
(* Bounds of the bot model *)

\* process restarts in the message-job runs
MaxRestarts == 2
\* process restarts in the runs with leagues
MaxLeagueRestarts == 1
\* rows of one league's result log
MaxLog == 1
\* the instants at which the clock is read: Monday 16:00, Tuesday 08:00,
\* Tuesday 16:00 and Wednesday 16:00 of the first week, Monday 16:00 and
\* Tuesday 16:00 of the second
Instants == {16, 32, 40, 64, 184, 208}
\* the clock stops advancing here
Horizon == 208
\* Tuesday 16:00 of ISO week 1 of 2024 and of ISO week 1 of 2025
YearInstants == {40, 52 * 7 * 24 + 40}
YearHorizon == 8776
\* the clock of the message-job runs stops here
JobHorizon == 40
\* the clock of the result-log runs stops here
LogHorizon == 40
\* rows of the result log in the result-log runs
MaxStored == 2
\* orphaned results submitted
MaxOrphans == 1
\* the clock of the runs of the whole bot stops here
TickHorizon == 40
JobStems == {"j1", "j2"}
JobIds == {"j1", "j2"}
JobTimes == {16, 40}
ChannelIds == {1, 2, 3}

----------------------------------------------------------------------------
(* The calendar *)

HoursPerWeek == 7 * HoursPerDay

\* datetime.hour
HourOf(t) == t % HoursPerDay

\* date.isoweekday(): 1 = Monday .. 7 = Sunday; hour 0 is a Monday
IsoWeekday(t) == (Days(t) % 7) + 1

\* the calendar week an instant lies in, counted from hour 0
CalendarWeek(t) == t \div HoursPerWeek

\* datetime.isocalendar()[1]: 1..52, starting again every 52 weeks
IsoWeek(t) == (CalendarWeek(t) % 52) + 1

----------------------------------------------------------------------------
(* The chat collaborator *)

\* client.get_channel(channel_id): what the id resolves to
get_channel(channel_id) ==
    CASE channel_id = 1 -> "text"
      [] channel_id = 2 -> "none"
      [] OTHER -> "voice"

\* isinstance(channel, discord.TextChannel) or isinstance(channel, discord.Thread)
Sendable(channel) == channel \in {"text", "thread"}

\* channel.send either delivers the message or raises; the loop of
\* discord.ext.tasks retries after a connection error ("transient") and ends
\* on any other error ("fatal")
SendOutcomes == {"sent", "transient", "fatal"}

----------------------------------------------------------------------------
(* messagejob.py *)

\* the content of a job file
JobFiles == [id : JobIds, timestamp : JobTimes, channel_id : ChannelIds]

\* a dict without the key k (dict.pop(k, None), a file moved away)
Without(d, k) == [x \in (DOMAIN d) \ {k} |-> d[x]]

\* _load_jobs: every file of the pending store, keyed by the id it holds
\* (ids are unique over the files)
LoadJobs(dir) ==
    [i \in { dir[s].id : s \in DOMAIN dir } |->
        LET s == CHOOSE s \in DOMAIN dir : dir[s].id = i
        IN  [id |-> dir[s].id, timestamp |-> dir[s].timestamp,
             channel_id |-> dir[s].channel_id]]

\* _mark_done, line 98: job_path is built from the job's id
JobPath(job, dir) == job.id

\* run_jobs, line 133: the ids of the loaded jobs that are due
DueIds(js, t) == { i \in DOMAIN js : js[i].timestamp <= t }

\* the orders in which a dict may hold the given keys
Orders(S) ==
    { q \in [1..Cardinality(S) -> S] : \A i, j \in DOMAIN q : i # j => q[i] # q[j] }

----------------------------------------------------------------------------
(* manager.py, client.py *)

\* the "match report" form's message when no league is active
Placeholder == "No active leagues available"

\* the league configurations found in the league directory; the second
\* league's channel resolves to nothing or to a channel of another kind
League1 == [league_name |-> "L1", start_date |-> 0, end_date |-> 400,
            posting_day |-> 2, channel_id |-> 1]
League2(ch) == [league_name |-> "L2", start_date |-> 48, end_date |-> 200,
                posting_day |-> 1, channel_id |-> ch]
\* a league that runs for more than a year
LongLeague == [League1 EXCEPT !.end_date = 9000]
LeagueNames == {"L1", "L2"}
\* the league names a submitted report can carry
LogNames == LeagueNames \cup {Placeholder}

\* _setup_leagues: the registry, in the order the directory lists the files
LeagueSetups ==
    { <<League1, League2(ch)>> : ch \in {2, 3} } \cup
    { <<League2(ch), League1>> : ch \in {2, 3} }

\* a variant of the registry lookup that finds every name
RegisteredAny(ls) == LogNames

Registered(ls) == { ls[i].league_name : i \in DOMAIN ls }

Absent == "absent"

\* adapt_submission of a form submitted now: the victory points are 0
Submissions(t) ==
    { [player |-> p, opponent |-> o, time |-> t,
       player_victory |-> oc[1], draw |-> oc[2],
       vp_player |-> 0, vp_opponent |-> 0, league_name |-> l] :
         p \in {"A"}, o \in {"B"}, oc \in {<<TRUE, FALSE>>}, l \in LeagueNames }

\* the whole numbers a cell of a log can hold
Numbers == (0..Horizon) \cup YearInstants

\* the report form submitted now, in any outcome, for a league name the
\* form offered: a configured league or the placeholder
Reports(t) ==
    { [player |-> "A", opponent |-> "B", time |-> t,
       player_victory |-> oc[1], draw |-> oc[2],
       vp_player |-> 0, vp_opponent |-> 0, league_name |-> l] :
         oc \in Outcomes, l \in LogNames }

\* A result log is absent or a sequence of lines, each line the sequence of
\* its cells (the csv module quotes and unquotes the cells' text).

\* DiscordLadderResult.model_fields, in declaration order: the header line
Header == <<"player", "opponent", "time", "player_victory", "draw",
            "vp_player", "vp_opponent", "league_name">>
IntFields == {"time", "vp_player", "vp_opponent"}
BoolFields == {"player_victory", "draw"}

\* csv.writer: a cell that is no string is written as str(value)
CellText(value, field) ==
    IF field \in IntFields THEN ToString(value)
    ELSE IF field \in BoolFields THEN (IF value THEN "True" ELSE "False")
    ELSE value

\* DictWriter.writerow(result.model_dump()): the cells in header order
DumpRow(r) == [i \in DOMAIN Header |-> CellText(r[Header[i]], Header[i])]

\* DictReader: a line read under the field names of the file's first line
DictRow(fieldnames, line) ==
    [k \in Range(fieldnames) |->
        line[CHOOSE i \in DOMAIN fieldnames : fieldnames[i] = k]]

ValidationError == "ValidationError"

\* pydantic's integer from text: the whole number a decimal numeral denotes
IntOfText ==
    [text \in { ToString(n) : n \in Numbers } |->
        CHOOSE n \in Numbers : ToString(n) = text]
IsInt(text) == text \in DOMAIN IntOfText
ParseInt(text) == IntOfText[text]

\* str.lower() of the words a boolean cell can hold
LowerWord(text) ==
    CASE text = "True" -> "true"
      [] text = "False" -> "false"
      [] OTHER -> text

\* a variant that reads a cell as Python's bool(text) does: any text is true
ParseBoolTruthy(text) == text # ""

\* pydantic's boolean from text: the words it takes for true and for false
TrueWords == {"1", "on", "t", "true", "y", "yes"}
FalseWords == {"0", "off", "f", "false", "n", "no"}
IsBool(text) == LowerWord(text) \in TrueWords \cup FalseWords
ParseBool(text) == LowerWord(text) \in TrueWords

\* DiscordLadderResult.model_validate(row): every field is looked up by its
\* name (populate_by_name) and its text converted to the field's type
Validate(row) ==
    IF ~(Range(Header) \subseteq DOMAIN row) THEN ValidationError
    ELSE IF \/ \E f \in IntFields : ~IsInt(row[f])
            \/ \E f \in BoolFields : ~IsBool(row[f])
    THEN ValidationError
    ELSE [f \in Range(Header) |->
            IF f \in IntFields THEN ParseInt(row[f])
            ELSE IF f \in BoolFields THEN ParseBool(row[f])
            ELSE row[f]]

\* _read_results, lines 134-139: a missing file is created with the header
CreateIfMissing(file) == IF file = Absent THEN <<Header>> ELSE file

\* _read_results, lines 140-145: the validated rows below the first line
ReadResults(file) ==
    LET f == CreateIfMissing(file)
    IN  [i \in 1..(Len(f) - 1) |-> Validate(DictRow(f[1], f[i + 1]))]

\* a variant of the mode choice that always truncates
StoreModeWrite(file) == "w"

\* store_result, lines 162-165: append, or write when the file is missing
StoreMode(file) == IF file = Absent THEN "w" ELSE "a"

\* store_result, lines 166-172: the header goes first into a file opened for
\* writing; a file opened for appending keeps its lines
Written(file, mode, r) ==
    IF mode = "w" THEN <<Header, DumpRow(r)>>
    ELSE Append(IF file = Absent THEN << >> ELSE file, DumpRow(r))

\* post_standings, lines 181-186: the three gates on the clock
valid_date(t, cfg) == t <= cfg.end_date /\ t >= cfg.start_date
valid_day(t, cfg) == IsoWeekday(t) >= cfg.posting_day
\* a variant of the hour gate that opens at 08:00
valid_time_morning(t) == HourOf(t) >= 8

valid_time(t) == HourOf(t) >= 16
GatesOpen(t, cfg) == valid_day(t, cfg) /\ valid_time(t) /\ valid_date(t, cfg)

\* a variant that posts whatever the record holds
NeedToPostAlways(record, week) == TRUE

\* post_standings, lines 188-198: no record of this week's number
NeedToPost(record, week) ==
    record = Absent \/ \A i \in DOMAIN record : record[i] # week

----------------------------------------------------------------------------
(* The handlers *)

\* _mark_done: the job leaves the loaded jobs, and the file named after its
\* id, if there is one, moves from the pending to the finished store
MarkDoneJobs(js, job) == Without(js, job.id)
MarkDonePending(dir, job) ==
    IF JobPath(job, dir) \in DOMAIN dir THEN Without(dir, JobPath(job, dir)) ELSE dir
MarkDoneFinished(fin, dir, job) ==
    IF JobPath(job, dir) \in DOMAIN dir
    THEN DictSet(fin, JobPath(job, dir), dir[JobPath(job, dir)])
    ELSE fin

\* _run_job: returns without sending when the channel lookup finds nothing,
\* raises RuntimeError for a channel of another kind, and sends otherwise
RunJobOutcomes(job) ==
    LET channel == get_channel(job.channel_id)
    IN  IF channel = "none" THEN {"skipped"}
        ELSE IF ~Sendable(channel) THEN {"fatal"}
        ELSE SendOutcomes

\* _compute_standings of a league's log
LeagueStandings(log, cfg) == compute_standings(ReadResults(log), cfg)

\* post_standings and _post_standings: how a call for the league ends
PostOutcomes(t, cfg, record, log) ==
    IF ~GatesOpen(t, cfg) THEN {"closed"}
    ELSE IF ~NeedToPost(record, IsoWeek(t)) THEN {"recorded"}
    ELSE IF DOMAIN LeagueStandings(log, cfg) = {} THEN {"empty"}
    ELSE IF ~Sendable(get_channel(cfg.channel_id)) THEN {"fatal"}
    ELSE SendOutcomes

\* a variant in which only a connection error leaves the tick
RaisedByConnection(outcome) == outcome = "transient"

Raised(outcome) == outcome \in {"transient", "fatal"}

\* the record of a tick: what was to be attempted when it began, the
\* pending files that were due then, what has been attempted, whether
\* run_jobs has returned, and the calls that raised, with what their channel
\* lookup returned
NoPoll == [began |-> FALSE, planned |-> {}, attempted |-> << >>,
           pending_due |-> {}, jobs_done |-> FALSE, raised |-> {}]

\* a variant of the tick's order that visits the leagues first
NextDutyLeaguesFirst(d, t) ==
    IF t # << >> THEN "league" ELSE IF d # << >> THEN "job" ELSE "none"

\* job_runner, lines 143-145: run_jobs is awaited to its end, then the
\* leagues are visited; d are the due jobs left, t the leagues left
NextDuty(d, t) ==
    IF d # << >> THEN "job" ELSE IF t # << >> THEN "league" ELSE "none"

\* before_job_runner: wait_until_ready has returned
Ready ==
    /\ pc = "waiting"
    /\ pc' = "idle"
    /\ UNCHANGED <<probe, results, player_map, now, due, todo, jobs, job_dir,
                   finished_dir, leagues, config_file, results_path,
                   dispatched, posts, poll, restarts,
                   stored, orphaned>>

\* job_runner, a tick begins: run_jobs reads the clock and lists the due
\* jobs, in the order the dict holds them
TickStart ==
    /\ pc = "idle"
    /\ \E q \in Orders(DueIds(jobs, now)) :
         /\ due' = [i \in DOMAIN q |-> jobs[q[i]]]
         /\ pc' = IF q = << >> /\ leagues = << >> THEN "idle" ELSE "tick"
         /\ poll' = [began |-> TRUE,
                     planned |-> DueIds(jobs, now) \cup Registered(leagues),
                     attempted |-> << >>,
                     pending_due |-> { job_dir[s] : s \in
                        { x \in DOMAIN job_dir : job_dir[x].timestamp <= now } },
                     jobs_done |-> (q = << >>),
                     raised |-> {}]
    /\ todo' = leagues
    /\ UNCHANGED <<probe, results, player_map, now, jobs, job_dir, finished_dir,
                   leagues, config_file, results_path, dispatched, posts,
                   restarts,
                   stored, orphaned>>

\* run_jobs, one iteration: _run_job(job), then _mark_done(job); an error
\* raised by _run_job leaves run_jobs and job_runner
RunJob ==
    /\ pc = "tick"
    /\ NextDuty(due, todo) = "job"
    /\ LET job == Head(due)
       IN  \E outcome \in RunJobOutcomes(job) :
             /\ dispatched' = IF outcome = "sent"
                              THEN Append(dispatched, [job |-> job, at |-> now])
                              ELSE dispatched
             /\ jobs' = IF Raised(outcome) THEN jobs ELSE MarkDoneJobs(jobs, job)
             /\ job_dir' = IF Raised(outcome) THEN job_dir
                           ELSE MarkDonePending(job_dir, job)
             /\ finished_dir' = IF Raised(outcome) THEN finished_dir
                                ELSE MarkDoneFinished(finished_dir, job_dir, job)
             /\ due' = IF Raised(outcome) THEN << >> ELSE Tail(due)
             /\ todo' = IF Raised(outcome) THEN << >> ELSE todo
             /\ pc' = IF outcome = "fatal" THEN "stopped"
                      ELSE IF outcome = "transient" THEN "idle"
                      ELSE IF Tail(due) = << >> /\ todo = << >> THEN "idle"
                      ELSE "tick"
             /\ poll' = [poll EXCEPT
                           !.attempted = Append(@, job.id),
                           !.jobs_done = ~Raised(outcome) /\ Tail(due) = << >>,
                           !.raised = IF Raised(outcome)
                                      THEN @ \cup {[by |-> job.id, channel |->
                                               get_channel(job.channel_id)]}
                                      ELSE @]
    /\ UNCHANGED <<probe, results, player_map, now, leagues, config_file,
                   results_path, posts, restarts,
                   stored, orphaned>>

\* job_runner, one iteration of the loop over the leagues: post_standings
PostStandings ==
    /\ pc = "tick"
    /\ NextDuty(due, todo) = "league"
    /\ LET cfg == Head(todo)
           l == cfg.league_name
           record == config_file[l]
           message_record == IF record = Absent THEN << >> ELSE record
           week == IsoWeek(now)
       IN  \E outcome \in PostOutcomes(now, cfg, record, results_path[l]) :
             /\ posts' = IF outcome = "sent"
                         THEN Append(posts, [league |-> l, at |-> now])
                         ELSE posts
             /\ config_file' =
                  IF outcome = "closed" THEN config_file
                  ELSE IF outcome \in {"sent", "empty"}
                  THEN [config_file EXCEPT ![l] = Append(message_record, week)]
                  ELSE [config_file EXCEPT ![l] = message_record]
             /\ results_path' =
                  IF outcome \in {"closed", "recorded"} THEN results_path
                  ELSE [results_path EXCEPT ![l] = CreateIfMissing(@)]
             /\ todo' = IF Raised(outcome) THEN << >> ELSE Tail(todo)
             /\ pc' = IF outcome = "fatal" THEN "stopped"
                      ELSE IF outcome = "transient" THEN "idle"
                      ELSE IF Tail(todo) = << >> THEN "idle"
                      ELSE "tick"
             /\ poll' = [poll EXCEPT
                           !.attempted = Append(@, l),
                           !.raised = IF Raised(outcome)
                                      THEN @ \cup {[by |-> l, channel |->
                                               get_channel(cfg.channel_id)]}
                                      ELSE @]
    /\ UNCHANGED <<probe, results, player_map, now, due, jobs, job_dir, finished_dir,
                   leagues, dispatched, restarts,
                   stored, orphaned>>

\* write_ladder_result for a registered league: store_result appends the row,
\* creating the log with its header when it does not exist
StoreResult(r, cap) ==
    /\ r.league_name \in Registered(leagues)
    /\ Len(stored[r.league_name]) < cap
    /\ results_path' = [results_path EXCEPT
                          ![r.league_name] = Written(@, StoreMode(@), r)]
    /\ stored' = [stored EXCEPT ![r.league_name] = Append(@, r)]
    /\ UNCHANGED <<probe, results, player_map, now, pc, due, todo, jobs, job_dir,
                   finished_dir, leagues, config_file, dispatched, posts,
                   poll, restarts, orphaned>>

\* write_ladder_result for a league name that is not registered: a warning
\* is logged and the result is dropped
OrphanResult(r) ==
    /\ r.league_name \notin Registered(leagues)
    /\ orphaned < MaxOrphans
    /\ orphaned' = orphaned + 1
    /\ UNCHANGED <<probe, results, player_map, now, pc, due, todo, jobs, job_dir,
                   finished_dir, leagues, config_file, results_path,
                   dispatched, posts, poll, restarts, stored>>

\* the clock advances between ticks, to a later instant
Advance(t, horizon) ==
    /\ pc # "tick"
    /\ t > now
    /\ t <= horizon
    /\ now' = t
    /\ poll' = NoPoll
    /\ UNCHANGED <<probe, results, player_map, pc, due, todo, jobs, job_dir,
                   finished_dir, leagues, config_file, results_path,
                   dispatched, posts, restarts,
                   stored, orphaned>>

\* an operator writes a new job file, with an id no other file holds
WriteJob(s, f) ==
    /\ s \notin (DOMAIN job_dir) \cup (DOMAIN finished_dir)
    /\ \A x \in DOMAIN job_dir : job_dir[x].id # f.id
    /\ \A x \in DOMAIN finished_dir : finished_dir[x].id # f.id
    /\ job_dir' = DictSet(job_dir, s, f)
    /\ UNCHANGED <<probe, results, player_map, now, pc, due, todo, jobs,
                   finished_dir, leagues, config_file, results_path,
                   dispatched, posts, poll, restarts,
                   stored, orphaned>>

\* the process is restarted: WordBearerClient.__init__ builds the handler,
\* which loads the pending store, and the loop waits for the session again
Restart(cap) ==
    /\ restarts < cap
    /\ restarts' = restarts + 1
    /\ jobs' = LoadJobs(job_dir)
    /\ pc' = "waiting"
    /\ due' = << >>
    /\ todo' = << >>
    /\ poll' = NoPoll
    /\ UNCHANGED <<probe, results, player_map, now, job_dir, finished_dir, leagues,
                   config_file, results_path, dispatched, posts, stored,
                   orphaned>>

----------------------------------------------------------------------------
(* The specifications *)

\* the bot right after construction, with an empty pending store
BotInit(setups) ==
    /\ now = 0
    /\ pc = "waiting"
    /\ due = << >>
    /\ todo = << >>
    /\ jobs = LoadJobs(<< >>)
    /\ job_dir = << >>
    /\ finished_dir = << >>
    /\ leagues \in setups
    /\ config_file = [l \in LogNames |-> Absent]
    /\ results_path = [l \in LogNames |-> Absent]
    /\ dispatched = << >>
    /\ posts = << >>
    /\ poll = NoPoll
    /\ restarts = 0
    /\ stored = [l \in LogNames |-> << >>]
    /\ orphaned = 0

NoProbe == [start_date |-> 0, date |-> 0, seen |-> << >>]

NoReplay == results = << >> /\ player_map = << >> /\ probe = NoProbe

\* the whole bot: two leagues, and message jobs due on Monday 16:00 in
\* files named after their ids, until Tuesday 16:00 of the first week
Init == NoReplay /\ BotInit(LeagueSetups)

TickJobFiles == { f \in JobFiles : f.timestamp = 16 }

Next ==
    \/ Ready
    \/ TickStart
    \/ RunJob
    \/ PostStandings
    \/ \E r \in Submissions(now) : StoreResult(r, MaxLog)
    \/ \E t \in Instants : Advance(t, TickHorizon)
    \/ \E f \in TickJobFiles : WriteJob(f.id, f)
    \/ Restart(MaxLeagueRestarts)

Spec == Init /\ [][Next]_vars

\* the message jobs alone: no league is configured
JobInit == NoReplay /\ BotInit({<< >>})

JobNext ==
    \/ Ready
    \/ TickStart
    \/ RunJob
    \/ \E t \in Instants : Advance(t, JobHorizon)
    \/ \E s \in JobStems, f \in JobFiles : WriteJob(s, f)
    \/ Restart(MaxRestarts)

JobSpec == JobInit /\ [][JobNext]_vars

\* the leagues alone: no job file is ever written
PostInit == NoReplay /\ BotInit(LeagueSetups)

PostNext ==
    \/ Ready
    \/ TickStart
    \/ PostStandings
    \/ \E r \in Submissions(now) : StoreResult(r, MaxLog)
    \/ \E t \in Instants : Advance(t, Horizon)
    \/ Restart(MaxLeagueRestarts)

PostSpec == PostInit /\ [][PostNext]_vars

\* the two duties of a tick together: message jobs due on Monday 16:00, in
\* files named after their ids, and two leagues, the second with a channel
\* of another kind; the clock is read on Monday 16:00 and Wednesday 16:00
DutyInstants == {16, 64}
DutyHorizon == 64
DutySetups == { ls \in LeagueSetups : \A i \in DOMAIN ls : ls[i].channel_id # 2 }

DutyInit == NoReplay /\ BotInit(DutySetups)

DutyNext ==
    \/ Ready
    \/ TickStart
    \/ RunJob
    \/ PostStandings
    \/ \E r \in Submissions(now) : StoreResult(r, MaxLog)
    \/ \E t \in DutyInstants : Advance(t, DutyHorizon)
    \/ \E f \in TickJobFiles : WriteJob(f.id, f)
    \/ Restart(MaxLeagueRestarts)

DutySpec == DutyInit /\ [][DutyNext]_vars

\* a league that runs into the next year, visited in the first ISO week of
\* both years
YearInit == NoReplay /\ BotInit({<<LongLeague>>})

YearNext ==
    \/ Ready
    \/ TickStart
    \/ PostStandings
    \/ \E r \in Submissions(now) : StoreResult(r, MaxLog)
    \/ \E t \in YearInstants : Advance(t, YearHorizon)
    \/ Restart(MaxLeagueRestarts)

YearSpec == YearInit /\ [][YearNext]_vars

\* the result log of one league: reports come in for the registered league,
\* for a league that is not registered and under the placeholder, between
\* and during the ticks
LogInit == NoReplay /\ BotInit({<<League1>>})

LogNext ==
    \/ Ready
    \/ TickStart
    \/ PostStandings
    \/ \E r \in Reports(now) : StoreResult(r, MaxStored)
    \/ \E r \in Reports(now) : OrphanResult(r)
    \/ \E t \in Instants : Advance(t, LogHorizon)

LogSpec == LogInit /\ [][LogNext]_vars

----------------------------------------------------------------------------
(* The standings engine as a state machine: compute_standings replays a    *)
(* result sequence, one result per step.                                   *)

LadderInit ==
    /\ results = << >>
    /\ player_map = << >>
    /\ probe = NoProbe
    /\ BotInit({<< >>})

\* lines 193-207: the loop takes the next result
Replay(r) ==
    /\ Len(results) < MaxResults
    /\ results' = Append(results, r)
    /\ player_map' = StandingsStep(player_map, r, config)
    /\ UNCHANGED botVars
    /\ UNCHANGED probe

LadderNext == \E r \in LadderResults : Replay(r)

LadderSpec == LadderInit /\ [][LadderNext]_vars

----------------------------------------------------------------------------
(* period_of_date on its own: a league start and a timestamp are drawn, and *)
(* the function is called on the timestamp and on the same hour of the      *)
(* following weeks.                                                         *)

\* timestamps up to this many hours before and after Monday 00:00
ProbeSpan == 192
\* calls per timestamp: the timestamp itself and the weeks after it
ProbeWeeks == 2
ProbeStarts == {0, 48}

PeriodInit ==
    /\ results = << >>
    /\ player_map = << >>
    /\ BotInit({<< >>})
    /\ probe \in [start_date : ProbeStarts,
                  date : (0 - ProbeSpan)..ProbeSpan,
                  seen : {<< >>}]

\* period_of_date(d, c) for d the drawn timestamp plus as many weeks as
\* calls were made before
PeriodOfDate ==
    /\ Len(probe.seen) < ProbeWeeks
    /\ probe' = [probe EXCEPT !.seen = Append(@,
                    period_of_date(probe.date + Len(probe.seen) * HoursPerWeek,
                                   [config EXCEPT !.start_date = probe.start_date]))]
    /\ UNCHANGED ladderVars
    /\ UNCHANGED botVars

PeriodNext == PeriodOfDate

PeriodSpec == PeriodInit /\ [][PeriodNext]_vars

----------------------------------------------------------------------------
(* Properties of the scoring rule, stated over the replayed results *)

LastResult == results[Len(results)]
Replaying == Len(results') = Len(results) + 1
Replayed == results'[Len(results')]

\* the ladder points of a name before its ledger exists are the initial ones
PointsOf(pm, n) == IF n \in DOMAIN pm THEN pm[n].ladder_points ELSE INITIAL_POINTS

\* an earlier result between the two names, in either role order
FacedIn(rs, x, y) ==
    \E i \in DOMAIN rs : {rs[i].player, rs[i].opponent} = {x, y}

\* an earlier result naming x whose period index is the given one
RecordedIn(rs, x, period) ==
    \E i \in DOMAIN rs : /\ x \in {rs[i].player, rs[i].opponent}
                         /\ period_of_date(rs[i].time, config) = period

\* the day of a result, counted from the league's start
DayOf(r) == Days(r.time - config.start_date)

\* C1: in a league starting on day 0, after A beats B on day 0 (both new) and
\* A beats B again on any day 0..6 of that first week, A has 13 and B has 12
\* ladder points and both have played 2 games.
C1_SameWeekRepeatKeepsPoints ==
    (/\ Len(results) = 2
     /\ results[1].player # results[1].opponent
     /\ results[1].player_victory /\ DayOf(results[1]) = 0
     /\ results[2].player = results[1].player
     /\ results[2].opponent = results[1].opponent
     /\ results[2].player_victory /\ DayOf(results[2]) \in 0..6)
    => /\ player_map[results[1].player].ladder_points = 13
       /\ player_map[results[1].opponent].ladder_points = 12
       /\ player_map[results[1].player].games_played = 2
       /\ player_map[results[1].opponent].games_played = 2

\* C2: a result between two distinct players who have already faced each
\* other, in a period index in which both already have a recorded game,
\* leaves the ladder points of both unchanged, adds 1 to the games played of
\* both, adds the reported victory points and counts the win or the draw.
C2_Step ==
    Replaying =>
      LET r == Replayed
          a == r.player
          b == r.opponent
          period == period_of_date(r.time, config)
      IN  (/\ a # b
           /\ FacedIn(results, a, b)
           /\ RecordedIn(results, a, period)
           /\ RecordedIn(results, b, period))
          => /\ player_map'[a].ladder_points = player_map[a].ladder_points
             /\ player_map'[b].ladder_points = player_map[b].ladder_points
             /\ player_map'[a].games_played = player_map[a].games_played + 1
             /\ player_map'[b].games_played = player_map[b].games_played + 1
             /\ player_map'[a].total_vp = player_map[a].total_vp + r.vp_player
             /\ player_map'[b].total_vp = player_map[b].total_vp + r.vp_opponent
             /\ player_map'[a].games_won = player_map[a].games_won
                    + (IF r.player_victory THEN 1 ELSE 0)
             /\ player_map'[b].games_won = player_map[b].games_won
                    + (IF ~r.player_victory /\ ~r.draw THEN 1 ELSE 0)
             /\ player_map'[a].games_drawn = player_map[a].games_drawn
                    + (IF ~r.player_victory /\ r.draw THEN 1 ELSE 0)
             /\ player_map'[b].games_drawn = player_map[b].games_drawn
                    + (IF ~r.player_victory /\ r.draw THEN 1 ELSE 0)

C2_RepeatInPlayedPeriod == [][C2_Step]_vars

\* a rematch on day 7, whose period index is that of the first game on day
\* 0, has been replayed: the points are those of the first game alone
C2_Witness ==
    /\ Len(results) = 2
    /\ results[1].player = "A" /\ results[1].opponent = "B"
    /\ results[2].player = "B" /\ results[2].opponent = "A"
    /\ DayOf(results[1]) = 0 /\ DayOf(results[2]) = 7
    /\ results[1].player_victory /\ results[2].player_victory
    /\ player_map["A"].ladder_points = 13
    /\ player_map["B"].ladder_points = 12
    /\ player_map["B"].games_won = 1
    /\ player_map["A"].games_played = 2

\* what a result is for the player x: a win, a draw or a loss
OutcomeFor(x, r) ==
    IF r.draw /\ ~r.player_victory THEN "draw"
    ELSE IF (r.player = x) = r.player_victory THEN "win" ELSE "loss"

SomePointsDiffer(pm1, pm2) ==
    \E n \in DOMAIN pm1 : pm1[n].ladder_points # pm2[n].ladder_points

Reversed2(rs) == <<rs[2], rs[1]>>

SamePairSamePeriod(rs) ==
    /\ Len(rs) = 2
    /\ rs[1].player # rs[1].opponent
    /\ {rs[1].player, rs[1].opponent} = {rs[2].player, rs[2].opponent}
    /\ period_of_date(rs[1].time, config) = period_of_date(rs[2].time, config)

\* C9: compute_standings replays the results in the given order, neither
\* sorted nor deduplicated, and the order matters: for two results between
\* the same two players in the same period index, the replay forward and
\* the replay reversed end in different ladder points for some player
\* exactly when the two results differ in outcome; a result given twice is
\* counted twice.
C9_OrderSensitive ==
    /\ SamePairSamePeriod(results) =>
         (SomePointsDiffer(player_map, compute_standings(Reversed2(results), config))
            <=> OutcomeFor(results[1].player, results[1])
                  # OutcomeFor(results[1].player, results[2]))
    /\ (Len(results) = 2 /\ results[1] = results[2]) =>
         player_map[results[1].player].games_played >= 2

\* two results of one period index whose forward and reversed replays differ
C9_Witness ==
    /\ SamePairSamePeriod(results)
    /\ results[1].player = "A" /\ results[1].player_victory
    /\ results[2].player = "B" /\ results[2].player_victory
    /\ player_map["A"].ladder_points = 13
    /\ compute_standings(Reversed2(results), config)["A"].ladder_points = 12

\* C10: on the first result between two distinct players both gain 1 ladder
\* point whether or not either already played in that period, and no later
\* result between the two, in either role order, grants it again: the gain
\* of each side is the bonus of a first meeting plus, when that side has no
\* recorded game in the period yet, its outcome and play points.
C10_Step ==
    Replaying =>
      LET r == Replayed
          a == r.player
          b == r.opponent
          period == period_of_date(r.time, config)
          bonus == IF FacedIn(results, a, b) THEN 0 ELSE 1
          addtl == Addtl(EnsurePlayers(player_map, r), r)
      IN  a # b =>
          /\ player_map'[a].ladder_points = PointsOf(player_map, a) + bonus
                + (IF RecordedIn(results, a, period) THEN 0 ELSE addtl[1])
          /\ player_map'[b].ladder_points = PointsOf(player_map, b) + bonus
                + (IF RecordedIn(results, b, period) THEN 0 ELSE addtl[2])

C10_MatchupBonusOnce == [][C10_Step]_vars

\* A drew with a on day 0 (12 points each); then A, who has already played
\* in period 0, lost to B, met for the first time, on day 0: A gained the
\* bonus alone, B the bonus, the win and half the gap
C10_Witness ==
    /\ Len(results) = 2
    /\ {results[1].player, results[1].opponent} = {"A", "a"}
    /\ results[1].draw /\ ~results[1].player_victory
    /\ results[2].player = "B" /\ results[2].opponent = "A"
    /\ results[2].player_victory
    /\ \A i \in 1..2 : DayOf(results[i]) = 0
    /\ player_map["A"].ladder_points = 13
    /\ player_map["B"].ladder_points = 14
    /\ player_map["a"].ladder_points = 12

----------------------------------------------------------------------------
(* Properties of the weekly standings post *)

\* the standings messages sent for a league
PostsOf(ps, l) == SelectSeq(ps, LAMBDA p : p.league = l)

\* a standings message of the league was sent in the calendar week of now
PostedThisWeek(l) ==
    \E i \in DOMAIN posts :
        posts[i].league = l /\ CalendarWeek(posts[i].at) = CalendarWeek(now)

\* C3: once a standings message of a league has been sent in an ISO week, no
\* step in that week sends another one for the league or changes the
\* league's posted-week record.
C3_Step ==
    \A l \in LeagueNames :
        PostedThisWeek(l) => /\ PostsOf(posts', l) = PostsOf(posts, l)
                             /\ config_file'[l] = config_file[l]

C3_OnePostPerWeek == [][C3_Step]_vars

\* L1 posted on Tuesday 16:00, was visited again by the tick of Wednesday
\* 16:00 of the same week, and still has the one message and the one week
C3_Witness ==
    /\ now = 64
    /\ pc = "idle"
    /\ poll.began
    /\ \E i \in DOMAIN poll.attempted : poll.attempted[i] = "L1"
    /\ posts = <<[league |-> "L1", at |-> 40]>>
    /\ config_file["L1"] = <<1>>

\* C4: every week number in a league's posted-week record is the ISO week of
\* a standings message that was sent for the league, also when the league's
\* result log is empty.
C4_RecordedWeeksWerePosted ==
    \A l \in LeagueNames :
        config_file[l] # Absent =>
            \A i \in DOMAIN config_file[l] :
                \E j \in DOMAIN posts :
                    /\ posts[j].league = l
                    /\ IsoWeek(posts[j].at) = config_file[l][i]

----------------------------------------------------------------------------
(* Properties of the worker loop and of the message jobs *)

\* C5: when a tick is over, whether it completed or an error ended it, every
\* job that was due at its start and every league has been attempted.
C5_FailureIsolated ==
    (poll.began /\ pc \in {"idle", "stopped"})
        => poll.planned \subseteq Range(poll.attempted)

\* how often a job id was handed to channel.send
TimesSent(id) == Cardinality({ i \in DOMAIN dispatched : dispatched[i].job.id = id })

\* C6: no job is handed to channel.send more than once, over any polls and
\* process restarts.
C6_SentAtMostOnce == \A id \in JobIds : TimesSent(id) <= 1

\* C7: when run_jobs has returned normally, every job file that was in the
\* pending store and due when the poll began, and whose channel can be sent
\* to, has been dispatched, whether it was written before or after the
\* handler was constructed.
C7_PendingJobsPolled ==
    (poll.began /\ poll.jobs_done) =>
        \A f \in poll.pending_due :
            Sendable(get_channel(f.channel_id)) => TimesSent(f.id) >= 1

\* C8: every job in the finished store has been sent exactly once, and no
\* job was sent or relocated before its due timestamp.
C8_FinishedWereSentOnce ==
    /\ \A s \in DOMAIN finished_dir :
          /\ TimesSent(finished_dir[s].id) = 1
          /\ finished_dir[s].timestamp <= now
    /\ \A i \in DOMAIN dispatched :
          dispatched[i].job.timestamp <= dispatched[i].at

----------------------------------------------------------------------------
(* Properties of the ladder points and the counters *)

\* C11: no replayed result lowers anybody's ladder points, and no ledger ever
\* holds fewer than the initial 10 points (a ledger not yet created counts as
\* holding the initial points).
C11_Step ==
    \A n \in DOMAIN player_map' :
        /\ player_map'[n].ladder_points >= PointsOf(player_map, n)
        /\ player_map'[n].ladder_points >= INITIAL_POINTS

C11_PointsNeverFall == [][C11_Step]_vars

\* B has lost twice to A, the second time in a period in which both had a
\* recorded game: B keeps the 12 points it had after the first loss
C11_Witness ==
    /\ Len(results) = 2
    /\ \A i \in 1..2 : /\ results[i].player = "A" /\ results[i].opponent = "B"
                       /\ results[i].player_victory
    /\ DayOf(results[1]) = 0 /\ DayOf(results[2]) = 7
    /\ player_map["B"].ladder_points = 12
    /\ player_map["B"].games_played = 2

\* the new-matchup bonus of a replayed result, read from the result log
BonusFor(rs, x, y) == IF FacedIn(rs, x, y) THEN 0 ELSE 1

\* the ladder points a replay step adds to a name
Gain(n) == player_map'[n].ladder_points - PointsOf(player_map, n)

\* C12 as stated: for any draw between two distinct players, each side gains
\* exactly 1 ladder point, plus 1 more if the matchup is new.
C12_Step ==
    Replaying =>
      LET r == Replayed
      IN  (r.draw /\ ~r.player_victory /\ r.player # r.opponent)
          => /\ Gain(r.player) = 1 + BonusFor(results, r.player, r.opponent)
             /\ Gain(r.opponent) = 1 + BonusFor(results, r.player, r.opponent)

C12_DrawGainsOne == [][C12_Step]_vars

\* C12 amended: for a draw between two distinct players, a side with no
\* recorded game in the result's period index gains exactly 1 ladder point and
\* a side that already has one gains none, each plus 1 more if the matchup is
\* new, whatever ladder points the two held before.
C12_GatedStep ==
    Replaying =>
      LET r == Replayed
          period == period_of_date(r.time, config)
          DrawGain(x) == IF RecordedIn(results, x, period) THEN 0 ELSE 1
      IN  (r.draw /\ ~r.player_victory /\ r.player # r.opponent)
          => /\ Gain(r.player) =
                  DrawGain(r.player) + BonusFor(results, r.player, r.opponent)
             /\ Gain(r.opponent) =
                  DrawGain(r.opponent) + BonusFor(results, r.player, r.opponent)

C12_DrawGainsOneWhenFirstInPeriod == [][C12_GatedStep]_vars

\* after A beat a on day 0, A draws B on day 7: A, with a recorded game in
\* the period, gains the matchup bonus alone (14), B gains 2 (12)
C12_Witness ==
    /\ Len(results) = 2
    /\ results[1].player = "A" /\ results[1].opponent = "a"
    /\ results[1].player_victory /\ DayOf(results[1]) = 0
    /\ results[2].player = "A" /\ results[2].opponent = "B"
    /\ results[2].draw /\ ~results[2].player_victory /\ DayOf(results[2]) = 7
    /\ player_map["A"].ladder_points = 14
    /\ player_map["B"].ladder_points = 12

\* the least whole number that is at least g / 2
HalfUp(g) == CHOOSE k \in 0..g : 2 * k >= g /\ 2 * k < g + 2

\* the winner and the loser of a decided result
Winner(r) == IF r.player_victory THEN r.player ELSE r.opponent
Loser(r) == IF r.player_victory THEN r.opponent ELSE r.player

\* C13: for a win between two distinct players that is the first result of
\* both in its period index, the winner gains 2 + ceil(g / 2), g being the
\* amount by which the loser's ladder points exceeded the winner's before the
\* result (0 when they did not), and the loser gains 1; each gains 1 more if
\* the matchup is new; the same holds whichever role the winner has.
C13_Step ==
    Replaying =>
      LET r == Replayed
          period == period_of_date(r.time, config)
          w == Winner(r)
          l == Loser(r)
          g == IF PointsOf(player_map, l) > PointsOf(player_map, w)
               THEN PointsOf(player_map, l) - PointsOf(player_map, w) ELSE 0
      IN  (/\ r.player_victory \/ ~r.draw
           /\ r.player # r.opponent
           /\ ~RecordedIn(results, w, period)
           /\ ~RecordedIn(results, l, period))
          => /\ Gain(w) = 2 + HalfUp(g) + BonusFor(results, w, l)
             /\ Gain(l) = 1 + BonusFor(results, w, l)

C13_FirstWinInPeriod == [][C13_Step]_vars

\* A beat B on day 0 (13 to 12); on day 1 B, one point behind and named as
\* the opponent, beats A: B gains 2 + 1 and A gains 1, no bonus
C13_Witness ==
    /\ Len(results) = 2
    /\ results[1].player = "A" /\ results[1].opponent = "B"
    /\ results[1].player_victory /\ DayOf(results[1]) = 0
    /\ results[2].player = "A" /\ results[2].opponent = "B"
    /\ ~results[2].player_victory /\ ~results[2].draw
    /\ DayOf(results[2]) = 1
    /\ player_map["B"].ladder_points = 15
    /\ player_map["A"].ladder_points = 14

\* the positions of the results that name n
Naming(rs, n) == { i \in DOMAIN rs : n \in {rs[i].player, rs[i].opponent} }

\* the victory points a result reports for the side or sides of n
SideVP(r, n) == (IF r.player = n THEN r.vp_player ELSE 0)
                + (IF r.opponent = n THEN r.vp_opponent ELSE 0)

RECURSIVE SumVP(_, _)
SumVP(rs, n) ==
    IF rs = << >> THEN 0
    ELSE SumVP(SubSeq(rs, 1, Len(rs) - 1), n) + SideVP(rs[Len(rs)], n)

\* C14: after compute_standings over the replayed results, each ledger's
\* games_played is the number of results naming the player as player or
\* opponent and its total_vp is the sum of the victory points reported for
\* the player's side in those results.
C14_CountersMatchLog ==
    \A n \in DOMAIN player_map :
        /\ player_map[n].games_played = Cardinality(Naming(results, n))
        /\ player_map[n].total_vp = SumVP(results, n)

\* the names that appear as player or opponent in a result sequence
NamesIn(rs) == UNION { {rs[i].player, rs[i].opponent} : i \in DOMAIN rs }

\* the ledger of a name after the first result that names it, against
\* another name m, when the ledger started with 10 ladder points, no games,
\* no victory points, no opponents and no period counters
AfterFirst(n, m, r) ==
    LET won == Winner(r) = n /\ (r.player_victory \/ ~r.draw)
        drawn == r.draw /\ ~r.player_victory
        behind == IF PointsOf(player_map, m) > 10
                  THEN PointsOf(player_map, m) - 10 ELSE 0
    IN  [name |-> n, games_played |-> 1,
         games_won |-> IF won THEN 1 ELSE 0,
         games_drawn |-> IF drawn THEN 1 ELSE 0,
         opponents_played |-> <<m>>,
         total_vp |-> SideVP(r, n),
         ladder_points |-> 10 + 1 + (IF won THEN 2 + HalfUp(behind) ELSE 1),
         match_periods |-> (period_of_date(r.time, config) :> 1)]

\* C20: compute_standings holds exactly one ledger, filed under its own
\* name, for each distinct name that appears as player or opponent in the
\* results, names differing only in case being distinct, and none for other
\* names; a ledger starts with 10 ladder points, 0 games played, won and
\* drawn, 0 victory points, no opponents and no period counters, as its
\* contents after its first update show.
C20_Step ==
    Replaying =>
      LET r == Replayed
      IN  /\ DOMAIN player_map' = NamesIn(results')
          /\ \A n \in DOMAIN player_map' : player_map'[n].name = n
          /\ \A n \in {r.player, r.opponent} \ DOMAIN player_map :
               \A m \in {r.player, r.opponent} \ {n} :
                   player_map'[n] = AfterFirst(n, m, r)

C20_OneFreshLedgerPerName == [][C20_Step]_vars

\* a and A are two players: a beat B on day 0 (13 to 12), then A, new, loses
\* to B on day 1 and B, 2 points ahead of A's initial 10, gains 2
C20_Witness ==
    /\ Len(results) = 2
    /\ results[1].player = "a" /\ results[1].opponent = "B"
    /\ results[1].player_victory
    /\ results[2].player = "A" /\ results[2].opponent = "B"
    /\ ~results[2].player_victory /\ ~results[2].draw
    /\ DayOf(results[1]) = 0 /\ DayOf(results[2]) = 1
    /\ DOMAIN player_map = {"a", "A", "B"}
    /\ player_map["a"].ladder_points = 13
    /\ player_map["A"].ladder_points = 12
    /\ player_map["A"].games_played = 1

----------------------------------------------------------------------------
(* Properties of the result logs *)

\* the fold of update_players_basic over a result sequence, first result
\* first, each name starting from a fresh ledger
RECURSIVE FoldFrom(_, _, _)
FoldFrom(pm, rs, c) ==
    IF rs = << >> THEN pm
    ELSE FoldFrom(update_players_basic(EnsurePlayers(pm, Head(rs)), Head(rs), c),
                  Tail(rs), c)

\* the names of the leagues the bot was set up with
Configured == { leagues[i].league_name : i \in DOMAIN leagues }

\* C15: reading a league's log back yields exactly the results given to
\* store_result, in the order given; the standings computed from the log are
\* the fold of update_players_basic over these results from fresh ledgers;
\* and computing them again, after the first computation has read (and
\* possibly created) the log, yields the same ledgers.
C15_RoundTrip ==
    \A i \in DOMAIN leagues :
        LET cfg == leagues[i]
            file == results_path[cfg.league_name]
        IN  /\ ReadResults(file) = stored[cfg.league_name]
            /\ LeagueStandings(file, cfg) =
                   FoldFrom(<< >>, stored[cfg.league_name], cfg)
            /\ LeagueStandings(CreateIfMissing(file), cfg) =
                   LeagueStandings(file, cfg)

\* two results were stored for L1, a draw and then a loss of the player
C15_Witness ==
    /\ Len(stored["L1"]) = 2
    /\ stored["L1"][1].draw /\ ~stored["L1"][1].player_victory
    /\ ~stored["L1"][2].draw /\ ~stored["L1"][2].player_victory
    /\ stored["L1"][1].time = 16 /\ stored["L1"][2].time = 40
    /\ Len(results_path["L1"]) = 3
    /\ LeagueStandings(results_path["L1"], League1)["B"].ladder_points = 14

\* s is an initial segment of t
IsPrefix(s, t) == Len(s) <= Len(t) /\ \A i \in DOMAIN s : s[i] = t[i]

\* C16: whatever step is taken, a submission or a part of a tick, a log that
\* exists still exists afterwards and its earlier lines are an initial
\* segment of its later lines; and a log that exists starts with the header
\* line and holds it exactly once.
C16_Step ==
    \A l \in LogNames :
        /\ results_path[l] # Absent
             => /\ results_path'[l] # Absent
                /\ IsPrefix(results_path[l], results_path'[l])
        /\ results_path'[l] # Absent
             => /\ Len(results_path'[l]) >= 1
                /\ { i \in DOMAIN results_path'[l] :
                       results_path'[l][i] = Header } = {1}

C16_AppendOnly == [][C16_Step]_vars

\* a tick on Tuesday 16:00 found no standings for L1, so that _read_results
\* created the log, and two results were stored afterwards
C16_Witness ==
    /\ config_file["L1"] # Absent
    /\ config_file["L1"] = <<1>>
    /\ posts = << >>
    /\ Len(results_path["L1"]) = 3
    /\ Len(stored["L1"]) = 2

\* C19: a report whose league name no league was set up with (the
\* placeholder included) is dropped: no log exists under such a name,
\* store_result was never given such a report, every log holds exactly the
\* results store_result was given for its league, whatever reports were
\* dropped before or in between, and no row of any log carries such a name.
C19_OrphanDiscarded ==
    /\ \A l \in LogNames \ Configured :
           results_path[l] = Absent /\ stored[l] = << >>
    /\ \A l \in LogNames :
           /\ ReadResults(results_path[l]) = stored[l]
           /\ \A i \in DOMAIN stored[l] :
                  stored[l][i].league_name \in Configured

\* a report for a name that is not registered was dropped, and results for
\* L1 were stored around it
C19_Witness ==
    /\ orphaned = 1
    /\ Len(stored["L1"]) = 2
    /\ results_path[Placeholder] = Absent
    /\ results_path["L2"] = Absent

----------------------------------------------------------------------------
(* Properties of the gates and the destinations *)

\* the configuration of the league a step has just called post_standings for
JustPosted(l) ==
    /\ Len(poll'.attempted) = Len(poll.attempted) + 1
    /\ poll'.attempted[Len(poll'.attempted)] = l

\* C17: a call of post_standings sends a message only if now is within
\* [start_date, end_date], now's ISO weekday is at least the posting weekday,
\* now's UTC hour is at least 16 and the ISO week number is not in the
\* posted-week record; when one of the first three fails, nothing is sent
\* and the record is left as it is.
C17_Step ==
    \A i \in DOMAIN leagues :
        LET cfg == leagues[i]
            l == cfg.league_name
            in_window == cfg.start_date <= now /\ now <= cfg.end_date
            day_reached == IsoWeekday(now) >= cfg.posting_day
            hour_reached == HourOf(now) >= 16
            week_new == \/ config_file[l] = Absent
                        \/ IsoWeek(now) \notin Range(config_file[l])
            sent == Len(PostsOf(posts', l)) > Len(PostsOf(posts, l))
        IN  JustPosted(l) =>
              /\ sent => in_window /\ day_reached /\ hour_reached /\ week_new
              /\ ~(in_window /\ day_reached /\ hour_reached)
                   => ~sent /\ config_file'[l] = config_file[l]

C18_NothingFoundIsSkipped ==
    /\ \A e \in poll.raised : e.channel # "none"
    /\ \A i \in DOMAIN dispatched :
           get_channel(dispatched[i].job.channel_id) # "none"
    /\ \A i \in DOMAIN posts : \A j \in DOMAIN leagues :
           leagues[j].league_name = posts[i].league
               => get_channel(leagues[j].channel_id) # "none"

\* a channel object that is neither a text channel nor a thread
Unsupported(channel) == channel \notin {"none", "text", "thread"}

\* C22: when a due message job is run, or a standings post has a message to
\* send (gates open, week not recorded, standings not empty), and the
\* destination resolves to an object that is neither a text channel nor a
\* thread, the call raises, nothing is sent, the job's file stays in the
\* pending store and none appears in the finished store, and the ISO week is
\* not in the posted-week record afterwards.
C22_Step ==
    /\ \A id \in JobIds :
         (/\ pc = "tick" /\ due # << >>
          /\ Head(due).id = id
          /\ JustPosted(id)
          /\ Unsupported(get_channel(Head(due).channel_id)))
         => /\ \E e \in poll'.raised : e.by = id
            /\ dispatched' = dispatched
            /\ job_dir' = job_dir
            /\ finished_dir' = finished_dir
    /\ \A i \in DOMAIN leagues :
         LET cfg == leagues[i]
             l == cfg.league_name
             week_new == \/ config_file[l] = Absent
                         \/ IsoWeek(now) \notin Range(config_file[l])
         IN  (/\ JustPosted(l)
              /\ Unsupported(get_channel(cfg.channel_id))
              /\ cfg.start_date <= now /\ now <= cfg.end_date
              /\ IsoWeekday(now) >= cfg.posting_day
              /\ HourOf(now) >= 16
              /\ week_new
              /\ stored[l] # << >>)
             => /\ \E e \in poll'.raised : e.by = l
                /\ posts' = posts
                /\ config_file'[l] # Absent
                /\ IsoWeek(now) \notin Range(config_file'[l])

C22_UnsupportedDestinationFails == [][C22_Step]_vars

\* on Wednesday 16:00 the post for L2, which has a stored result and a
\* channel of another kind, raised: no message, and a record without the week
C22_Witness ==
    /\ now = 64
    /\ \E e \in poll.raised : e.by = "L2" /\ e.channel = "voice"
    /\ stored["L2"] # << >>
    /\ posts = << >>
    /\ config_file["L2"] # Absent
    /\ config_file["L2"] = << >>
    /\ pc = "stopped"

\* a step in which a tick begins
TickBegins == poll'.began /\ poll' # poll /\ poll'.attempted = << >>

\* a step in which a job or a league is attempted
Attempts == Len(poll'.attempted) = Len(poll.attempted) + 1

\* C23: no tick begins and nothing is attempted while the loop still waits
\* for the session to be ready; a tick begins only when no tick is under way,
\* the previous one having completed or failed; and within a tick a league's
\* post_standings is called only after run_jobs has returned with every job
\* that was due run, so that no job is attempted after a league.
C23_Step ==
    /\ (TickBegins \/ Attempts) => pc # "waiting"
    /\ TickBegins => pc = "idle" /\ due = << >> /\ todo = << >>
    /\ \A l \in LeagueNames :
         JustPosted(l) =>
           /\ due = << >>
           /\ poll.jobs_done
           /\ poll.planned \cap JobIds \subseteq Range(poll.attempted)
    /\ \A i, j \in DOMAIN poll'.attempted :
         (i < j /\ poll'.attempted[i] \in LeagueNames)
             => poll'.attempted[j] \in LeagueNames

C23_TicksInOrder == [][C23_Step]_vars

\* after a restart and the session becoming ready, a tick ran two due jobs
\* and then visited the two leagues
C23_Witness ==
    /\ restarts = 1
    /\ pc = "idle"
    /\ Len(poll.attempted) = 4
    /\ {poll.attempted[1], poll.attempted[2]} = JobIds
    /\ {poll.attempted[3], poll.attempted[4]} = LeagueNames

\* C24: a call of post_standings in a calendar week of the league's window
\* in which no message was sent yet, with the weekday and hour gates open
\* and a log that is not empty, sends a message unless the send itself
\* fails, whatever weeks the record holds from messages sent in other
\* calendar weeks (every recorded week being one whose message was sent).
C24_Step ==
    \A i \in DOMAIN leagues :
        LET cfg == leagues[i]
            l == cfg.league_name
            recorded == IF config_file[l] = Absent THEN 0 ELSE Len(config_file[l])
        IN  (/\ JustPosted(l)
             /\ cfg.start_date <= now /\ now <= cfg.end_date
             /\ IsoWeekday(now) >= cfg.posting_day
             /\ HourOf(now) >= 16
             /\ stored[l] # << >>
             /\ recorded = Len(PostsOf(posts, l))
             /\ ~PostedThisWeek(l)
             /\ ~\E e \in poll'.raised : e.by = l)
            => Len(PostsOf(posts', l)) = Len(PostsOf(posts, l)) + 1

C24_WeeksRecordedUniquely == [][C24_Step]_vars

----------------------------------------------------------------------------
(* Properties of the opponents and of the period counters *)

\* how often a name occurs in a sequence
Occurrences(s, x) == Cardinality({ i \in DOMAIN s : s[i] = x })

\* C25: after any replayed results, q is among p's opponents_played exactly
\* when p is among q's, and no name occurs more than once in anybody's
\* opponents_played, results naming one player on both sides included.
C25_OpponentsSymmetricSet ==
    \A p \in DOMAIN player_map :
        /\ \A q \in DOMAIN player_map :
               q \in Range(player_map[p].opponents_played)
                   <=> p \in Range(player_map[q].opponents_played)
        /\ \A x \in Range(player_map[p].opponents_played) :
               Occurrences(player_map[p].opponents_played, x) = 1

\* sum of the counters a ledger keeps per period
RECURSIVE SumOver(_, _)
SumOver(f, S) ==
    IF S = {} THEN 0
    ELSE LET k == CHOOSE x \in S : TRUE IN f[k] + SumOver(f, S \ {k})

PeriodSum(p) == SumOver(p.match_periods, DOMAIN p.match_periods)

\* C26 (states): after any replayed results every player's per-period
\* counters sum to games_played and every stored counter is at least 1.
C26_CountersSum ==
    \A n \in DOMAIN player_map :
        /\ PeriodSum(player_map[n]) = player_map[n].games_played
        /\ \A k \in DOMAIN player_map[n].match_periods :
               player_map[n].match_periods[k] >= 1

\* C26 (steps): a counter a player already has for a period is kept and never
\* falls when a further result is replayed, so it is never reset to 0; a
\* result in a period raises the counter of each player it names.
C26_Step ==
    Replaying =>
        /\ \A n \in DOMAIN player_map :
               /\ n \in DOMAIN player_map'
               /\ \A k \in DOMAIN player_map[n].match_periods :
                      /\ k \in DOMAIN player_map'[n].match_periods
                      /\ player_map'[n].match_periods[k]
                             >= player_map[n].match_periods[k]
        /\ C26_CountersSum'

C26_CountersNeverReset == [][C26_Step]_vars

\* two results in one period for the same two players: counter 2 for both
C26_Witness ==
    /\ Len(results) = 2
    /\ results[1].player # results[1].opponent
    /\ DOMAIN player_map = {results[1].player, results[1].opponent}
    /\ \A n \in DOMAIN player_map :
           /\ DOMAIN player_map[n].match_periods = {0}
           /\ player_map[n].match_periods[0] = 2
           /\ player_map[n].games_played = 2

====
